---- MODULE Spec2Model ----
(***************************************************************************)
(* cement.core.template.TemplateHandler: the template loader (load,        *)
(* _load_template_from_file, _load_template_from_module) and the template  *)
(* copier (copy), over an explicit file system.                            *)
(*                                                                         *)
(* A string is a sequence of one-character strings: "/s/a" is              *)
(* <<"/", "s", "/", "a">>.  A file-system node is a record                  *)
(* [kind, content]; the file system maps each existing absolute,           *)
(* normalised path to its node.  The operations on strings and paths are   *)
(* functions of their arguments (lstrip[s, c], abspath[path]); what reads  *)
(* the file system or the call's arguments is an operator.                 *)
(***************************************************************************)
EXTENDS Integers, Sequences, FiniteSets, TLC

VARIABLES
    op,             \* the method called: "load" or "copy"
    fs,             \* the file system: [path -> node]
    fs0,            \* the file system when the call was made (history)
    pc,             \* position of the call being run
    ret,            \* what the call returned or raised
    app_meta,       \* self.app._meta: template_dirs, template_module
    sys_modules,    \* sys.modules: names of the imported modules
    importable,     \* the modules an __import__ finds
    template_path,  \* load's argument
    src,            \* copy's arguments
    dest,
    data,
    force,
    exclude,
    ignore,
    meta,           \* self._meta: ignore, exclude
    walk,           \* os.walk: directories still to be visited, in order
    cur_dir,        \* the walk's current (cur_dir, sub_dirs, files)
    sub_dirs,
    files,
    cur_dir_dest,
    rendered,       \* history: the calls of self.render made so far
    made,           \* history: source sub-directory -> sub_dir_dest
    written,        \* history: the files written, source -> target
    last            \* history: the file entry the last step handled

vars == <<op, fs, fs0, pc, ret, app_meta, sys_modules, importable, template_path,
          src, dest, data, force, exclude, ignore, meta, walk, cur_dir,
          sub_dirs, files, cur_dir_dest, rendered, made, written, last>>

----------------------------------------------------------------------------
(* Strings                                                                 *)

\* A str: a sequence of characters
Str == Seq(STRING)

\* str.lstrip(c)
lstrip[s \in Str, c \in STRING] ==
    IF s # <<>> /\ Head(s) = c THEN lstrip[Tail(s), c] ELSE s

\* str.rstrip(c)
rstrip[s \in Str, c \in STRING] ==
    IF s # <<>> /\ s[Len(s)] = c
    THEN rstrip[SubSeq(s, 1, Len(s) - 1), c]
    ELSE s

\* str.split('/')
split[s \in Str] ==
    IF \A i \in 1..Len(s) : s[i] # "/"
    THEN <<s>>
    ELSE LET i == CHOOSE k \in 1..Len(s) :
                      s[k] = "/" /\ \A j \in 1..(k - 1) : s[j] # "/"
         IN  <<SubSeq(s, 1, i - 1)>> \o split[SubSeq(s, i + 1, Len(s))]

\* '/'.join(comps)
slash_join[comps \in Seq(Str)] ==
    IF comps = <<>> THEN <<>>
    ELSE IF Len(comps) = 1 THEN comps[1]
    ELSE comps[1] \o <<"/">> \o slash_join[Tail(comps)]

\* os.path.join(a, b)
join[a \in Str, b \in Str] ==
    IF b # <<>> /\ Head(b) = "/" THEN b
    ELSE IF a = <<>> \/ a[Len(a)] = "/" THEN a \o b
    ELSE a \o <<"/">> \o b

\* The components normpath keeps: '' and '.' are dropped, '..' drops the
\* component before it (at the root, itself).
new_comps[comps \in Seq(Str), acc \in Seq(Str)] ==
    IF comps = <<>> THEN acc
    ELSE LET c == Head(comps) IN
         IF c = <<>> \/ c = <<".">> THEN new_comps[Tail(comps), acc]
         ELSE IF c = <<".", ".">>
              THEN new_comps[Tail(comps),
                             IF acc = <<>> THEN acc
                             ELSE SubSeq(acc, 1, Len(acc) - 1)]
              ELSE new_comps[Tail(comps), Append(acc, c)]

\* os.path.normpath(path) of an absolute path
normpath[path \in Str] ==
    LET initial_slashes ==
            IF Len(path) >= 2 /\ path[2] = "/"
               /\ ~(Len(path) >= 3 /\ path[3] = "/")
            THEN <<"/", "/">> ELSE <<"/">>
    IN  initial_slashes \o slash_join[new_comps[split[path], <<>>]]

\* os.getcwd()
getcwd == <<"/", "w">>

\* cement.utils.fs.abspath(path): os.path.abspath(os.path.expanduser(path))
abspath[path \in Str] ==
    IF path # <<>> /\ Head(path) = "/"
    THEN normpath[path]
    ELSE normpath[join[getcwd, path]]

\* One character of a regular expression against one character of text; of
\* the characters used here only '.' is special.
char_matches(p, c) == p = "." \/ p = c

\* Whether the regular expression pat (a string) matches at the start of s.
match_at[pat \in Str, s \in Str] ==
    /\ Len(s) >= Len(pat)
    /\ \A i \in 1..Len(pat) : char_matches(pat[i], s[i])

\* re.sub(pat, '', s): every non-overlapping match, left to right, removed.
re_sub[pat \in Str, s \in Str] ==
    IF s = <<>> THEN <<>>
    ELSE IF pat # <<>> /\ match_at[pat, s]
         THEN re_sub[pat, SubSeq(s, Len(pat) + 1, Len(s))]
         ELSE <<Head(s)>> \o re_sub[pat, Tail(s)]

\* re.sub('/', '.', s)
slash_to_dot[s \in Str] ==
    IF s = <<>> THEN <<>>
    ELSE <<IF Head(s) = "/" THEN "." ELSE Head(s)>> \o slash_to_dot[Tail(s)]

\* re.match(pattern, s) for a tokenised pattern: "^" and "$" are the anchors,
\* "(.*)" any run of characters, "." any character, "\\." a literal dot, and
\* any other token the character itself.  A match is anchored at the start
\* of s and need not reach its end.
re_match[pattern \in Str, s \in Str] ==
    IF pattern = <<>> THEN TRUE
    ELSE LET t == Head(pattern) IN
         CASE t = "^"    -> re_match[Tail(pattern), s]
           [] t = "$"    -> s = <<>> /\ re_match[Tail(pattern), s]
           [] t = "(.*)" -> \E k \in 0..Len(s) :
                                re_match[Tail(pattern),
                                         SubSeq(s, k + 1, Len(s))]
           [] t = "."    -> s # <<>> /\ re_match[Tail(pattern), Tail(s)]
           [] t = "\\."  -> s # <<>> /\ Head(s) = "."
                            /\ re_match[Tail(pattern), Tail(s)]
           [] OTHER      -> s # <<>> /\ Head(s) = t
                            /\ re_match[Tail(pattern), Tail(s)]

----------------------------------------------------------------------------
(* The file system                                                         *)

Dir == [kind |-> "dir", content |-> <<>>]
File(content) == [kind |-> "file", content |-> content]
NoNode == [kind |-> "none", content |-> <<>>]

\* os.path.exists(p)
exists(f, p) == abspath[p] \in DOMAIN f

\* os.path.isdir(p)
isdir(f, p) == exists(f, p) /\ f[abspath[p]].kind = "dir"

\* The node at p, NoNode when there is none.
node(f, p) == IF exists(f, p) THEN f[abspath[p]] ELSE NoNode

\* os.path.dirname and os.path.basename of a normalised absolute path
dirname[p \in Str] ==
    LET c == new_comps[split[p], <<>>]
    IN  <<"/">> \o slash_join[SubSeq(c, 1, Len(c) - 1)]

basename[p \in Str] ==
    LET c == new_comps[split[p], <<>>]
    IN  IF c = <<>> THEN <<>> ELSE c[Len(c)]

\* p and the directories above it
prefixes[p \in Str] ==
    LET c == new_comps[split[p], <<>>]
    IN  {<<"/">> \o slash_join[SubSeq(c, 1, k)] : k \in 0..Len(c)}

\* open(p, 'r').read(): the content, or an IOError
can_read(f, p) == exists(f, p) /\ f[abspath[p]].kind = "file"

\* open(p, 'w'): p is no directory and lies in an existing directory
can_write(f, p) == ~isdir(f, p) /\ isdir(f, dirname[abspath[p]])

\* f.write(content) to open(p, 'w')
write(f, p, content) ==
    [q \in DOMAIN f \cup {abspath[p]} |->
        IF q = abspath[p] THEN File(content) ELSE f[q]]

\* os.makedirs(p) succeeds unless a file is in the way
can_makedirs(f, p) ==
    \A q \in prefixes[abspath[p]] : q \in DOMAIN f => f[q].kind = "dir"

makedirs(f, p) ==
    [q \in DOMAIN f \cup prefixes[abspath[p]] |->
        IF q \in DOMAIN f THEN f[q] ELSE Dir]

\* The file system that holds the files of entries (pairs <<path, content>>),
\* the directories of dirs, and the directories above them.
mktree(dirs, entries) ==
    LET paths == {e[1] : e \in entries}
        above == UNION {prefixes[p] : p \in paths \cup dirs}
    IN  [q \in above |->
            IF q \in paths
            THEN File((CHOOSE e \in entries : e[1] = q)[2])
            ELSE Dir]

----------------------------------------------------------------------------
(* The values a call returns or raises                                     *)

NoRet == [kind |-> "none", exc |-> "", msg |-> "", content |-> <<>>,
          type |-> "", path |-> <<>>]

Return(content, type, path) ==
    [kind |-> "return", exc |-> "", msg |-> "", content |-> content,
     type |-> type, path |-> path]

Raise(exc, msg, path) ==
    [kind |-> "raise", exc |-> exc, msg |-> msg, content |-> <<>>,
     type |-> "", path |-> path]

\* A (content, path) pair of the two loaders; out = "none" is (None, None).
Found(content, path) == [out |-> "ok", content |-> content, path |-> path]
NotFound == [out |-> "none", content |-> <<>>, path |-> <<>>]
IOError == [out |-> "ioerror", content |-> <<>>, path |-> <<>>]

----------------------------------------------------------------------------
(* TemplateHandler.load                                                    *)

\* As _load_template_from_file, but a later template_dir that holds the
\* template replaces an earlier one (the loop does not stop at the first).
RECURSIVE load_template_from_file_last(_, _, _, _)
load_template_from_file_last(f, template_dirs, i, path) ==
    IF i > Len(template_dirs) THEN [out |-> "none", content |-> <<>>,
                                    path |-> <<>>]
    ELSE LET full_path == abspath[join[rstrip[template_dirs[i], "/"],
                                       lstrip[path, "/"]]]
             later == load_template_from_file_last(f, template_dirs, i + 1,
                                                   path)
         IN  IF later.out = "ok" \/ ~exists(f, full_path) THEN later
             ELSE [out |-> "ok", content |-> f[full_path].content,
                   path |-> full_path]

\* TemplateHandler._load_template_from_file, from the i-th template_dir on
RECURSIVE load_template_from_file(_, _, _, _)
load_template_from_file(f, template_dirs, i, path) ==
    IF i > Len(template_dirs) THEN NotFound
    ELSE LET template_prefix == rstrip[template_dirs[i], "/"]
             stripped == lstrip[path, "/"]
             full_path == abspath[join[template_prefix, stripped]]
         IN  IF exists(f, full_path)
             THEN IF can_read(f, full_path)
                  THEN Found(f[full_path].content, full_path)
                  ELSE IOError
             ELSE load_template_from_file(f, template_dirs, i + 1, stripped)

\* os.path.dirname(mod.__file__) of an imported package
package_dir(module) == <<"/">> \o module

\* os.path.join(*parts)
join_all[a \in Str, parts \in Seq(Str)] ==
    IF parts = <<>> THEN a
    ELSE join_all[join[a, Head(parts)], Tail(parts)]

\* pkgutil.get_data(package, resource): the bytes, or an IOError
get_data(f, package, resource) ==
    LET resource_name == join_all[package_dir(package), split[resource]]
    IN  IF can_read(f, resource_name)
        THEN Found(f[abspath[resource_name]].content, resource_name)
        ELSE IOError

\* As _load_template_from_module, but the path keeps its slashes.
load_template_from_module_slashes(f, template_module, path, can_import) ==
    LET stripped == lstrip[path, "/"]
        got == get_data(f, template_module, stripped)
    IN  IF can_import /\ got.out = "ok"
        THEN Found(got.content, template_module \o <<".">> \o stripped)
        ELSE NotFound

\* TemplateHandler._load_template_from_module; can_import says whether the
\* module is in sys.modules or its __import__ succeeds.
load_template_from_module(f, template_module, path, can_import) ==
    LET stripped == lstrip[path, "/"]
        full_module_path ==
            template_module \o <<".">> \o slash_to_dot[stripped]
        got == get_data(f, template_module, stripped)
    IN  IF ~can_import THEN NotFound
        ELSE IF got.out = "ok" THEN Found(got.content, full_module_path)
        ELSE NotFound

\* As load, but a template that is found nowhere is returned as an empty
\* module template (the final check of content is left out).
load_unchecked(f, path, can_import) ==
    IF path = <<>>
    THEN Raise("FrameworkError", "Invalid template path", path)
    ELSE LET from_file ==
                 load_template_from_file(f, app_meta.template_dirs, 1, path)
             from_module ==
                 load_template_from_module(f, app_meta.template_module,
                                           path, can_import)
         IN  IF from_file.out = "ok"
             THEN Return(from_file.content, "directory", from_file.path)
             ELSE Return(from_module.content, "module", from_module.path)

\* TemplateHandler.load
load(f, path, can_import) ==
    IF path = <<>>
    THEN Raise("FrameworkError", "Invalid template path", path)
    ELSE LET from_file ==
                 load_template_from_file(f, app_meta.template_dirs, 1, path)
             from_module ==
                 load_template_from_module(f, app_meta.template_module,
                                           path, can_import)
         IN  IF from_file.out = "ioerror"
             THEN Raise("IOError", "", from_file.path)
             ELSE IF from_file.out = "ok"
             THEN Return(from_file.content, "directory", from_file.path)
             ELSE IF from_module.out = "ok"
             THEN Return(from_module.content, "module", from_module.path)
             ELSE Raise("FrameworkError", "Could not locate template", path)

----------------------------------------------------------------------------
(* TemplateHandler.copy                                                    *)

\* The longest path copy is let create.  The code has no limit of its own:
\* a copy that nests directories without end stops here, where the code goes
\* on until the platform refuses a path.
MaxPathLen == 10

\* TemplateHandler.Meta.exclude
MetaExclude ==
    << <<"^", "(.*)", "\\.", "p", "n", "g", "$">>,
       <<"^", "(.*)", "\\.", "j", "p", "g", "$">>,
       <<"^", "(.*)", "\\.", "j", "p", "e", "g", "$">>,
       <<"^", "(.*)", "\\.", "g", "i", "f", "$">>,
       <<"^", "(.*)", "\\.", "e", "x", "e", "$">>,
       <<"^", "(.*)", "\\.", "b", "i", "n", "$">>,
       <<"^", "(.*)", "\\.", "z", "i", "p", "$">>,
       <<"^", "(.*)", "\\.", "t", "a", "r", "$">>,
       <<"^", "(.*)", "\\.", "t", "a", "r", ".", "g", "z", "$">>,
       <<"^", "(.*)", "\\.", "t", "g", "z", "$">>,
       <<"^", "(.*)", "\\.", "g", "z", "$">>,
       <<"^", "(.*)", "\\.", "p", "y", "o", "$">>,
       <<"^", "(.*)", "\\.", "p", "y", "c", "$">> >>

\* self.render(content, data) of a handler that replaces each token of
\* content by the value data gives it.
RECURSIVE render(_, _)
render(content, d) ==
    IF content = <<>> THEN <<>>
    ELSE (IF Head(content) \in DOMAIN d
          THEN d[Head(content)] ELSE <<Head(content)>>)
         \o render(Tail(content), d)

\* for pattern in all_patterns: if re.match(pattern, _file): ... break
matches_any(all_patterns, file) ==
    \E i \in 1..Len(all_patterns) : re_match[all_patterns[i], file]

\* As ignore_it, but the call's list alone is used.
ignore_it_call_only(file) == matches_any(ignore, file)

\* ignore_it, from self._meta.ignore + ignore
ignore_it(file) == matches_any(meta.ignore \o ignore, file)

\* As exclude_it, but the handler's list alone is used.
exclude_it_meta_only(file) == matches_any(meta.exclude, file)

\* exclude_it, from self._meta.exclude + exclude
exclude_it(file) == matches_any(meta.exclude \o exclude, file)

\* cur_dir_dest of a visited directory
dest_of_dir(dir) ==
    IF dir = src THEN dest
    ELSE LET cur_dir_stub == re_sub[src, render(dir, data)]
         IN  join[dest, lstrip[lstrip[cur_dir_stub, "/"], "\\"]]

\* re.sub(src, '', self.render(name, data)) of a sub_dir or a _file
new_name(name) == re_sub[src, render(name, data)]

\* As the overwrite check, but with the sense of force inverted.
overwrite_refused_inverted(f, file_dest) ==
    force = TRUE /\ exists(f, file_dest)

\* if force is True: ... else: assert not os.path.exists(_file_dest)
overwrite_refused(f, file_dest) == force # TRUE /\ exists(f, file_dest)

\* The listings os.walk may give of a set of names: any order
RECURSIVE Orders(_)
Orders(S) ==
    IF S = {} THEN {<<>>}
    ELSE UNION {{<<x>> \o o : o \in Orders(S \ {x})} : x \in S}

\* os.scandir(top): the entries of directory top, by kind
entries(f, top, kind) ==
    {basename[p] : p \in {q \in DOMAIN f :
                             q # top /\ dirname[q] = top /\ f[q].kind = kind}}

\* One call of self.render, for the history
Call(what, of, arg) == [what |-> what, of |-> of, arg |-> arg, data |-> data]

\* What was done with a file entry, for the history
Done(file, file_dest, target, how) ==
    [file |-> file, dest |-> file_dest, written |-> target, how |-> how,
     before |-> node(fs, file_dest), source |-> node(fs, file).content]

NoFile == [file |-> <<>>, dest |-> <<>>, written |-> <<>>, how |-> "none",
           before |-> NoNode, source |-> <<>>]

\* The loop's position after the current entry
after(subs, fls) ==
    IF subs # <<>> THEN "subdirs" ELSE IF fls # <<>> THEN "files" ELSE "walk"

loadVars == <<app_meta, sys_modules, importable, template_path>>
argVars == <<data, force, exclude, ignore, meta>>

\* copy, lines 177-189: the arguments, the source check, the destination
CopyStart ==
    /\ op = "copy" /\ pc = "start"
    /\ src' = abspath[src]
    /\ dest' = abspath[dest]
    /\ IF ~exists(fs, abspath[src])
       THEN /\ pc' = "raised"
            /\ ret' = Raise("AssertionError", "Source path does not exist",
                            abspath[src])
            /\ UNCHANGED <<fs, walk>>
       ELSE IF exists(fs, abspath[dest])
       THEN /\ pc' = "walk" /\ walk' = <<abspath[src]>>
            /\ UNCHANGED <<fs, ret>>
       ELSE IF can_makedirs(fs, abspath[dest])
       THEN /\ fs' = makedirs(fs, abspath[dest])
            /\ pc' = "walk" /\ walk' = <<abspath[src]>>
            /\ UNCHANGED ret
       ELSE /\ pc' = "raised"
            /\ ret' = Raise("OSError", "makedirs", abspath[dest])
            /\ UNCHANGED <<fs, walk>>
    /\ UNCHANGED <<op, fs0, cur_dir, sub_dirs, files, cur_dir_dest, rendered,
                   made, written, last>>
    /\ UNCHANGED loadVars /\ UNCHANGED argVars

\* One step of os.walk(src) and lines 192-208: the next directory is listed
\* and its destination computed.  A path that is no directory yields nothing.
VisitDir ==
    /\ op = "copy" /\ pc = "walk" /\ walk # <<>>
    /\ LET top == Head(walk) IN
       IF ~isdir(fs, top)
       THEN /\ walk' = Tail(walk)
            /\ UNCHANGED <<pc, cur_dir, sub_dirs, files, cur_dir_dest,
                           rendered>>
       ELSE \E dirs \in Orders(entries(fs, top, "dir")),
               nondirs \in Orders(entries(fs, top, "file")) :
            /\ walk' = [i \in 1..Len(dirs) |-> join[top, dirs[i]]]
                       \o Tail(walk)
            /\ cur_dir' = top
            /\ IF top = <<".">>
               THEN /\ sub_dirs' = <<>> /\ files' = <<>>
                    /\ pc' = "walk"
                    /\ UNCHANGED <<cur_dir_dest, rendered>>
               ELSE /\ sub_dirs' = dirs /\ files' = nondirs
                    /\ pc' = after(dirs, nondirs)
                    /\ cur_dir_dest' = dest_of_dir(top)
                    /\ rendered' =
                           IF top = src THEN rendered
                           ELSE rendered \cup {Call("cur_dir", top, top)}
    /\ last' = NoFile
    /\ UNCHANGED <<op, fs, fs0, ret, src, dest, made, written>>
    /\ UNCHANGED loadVars /\ UNCHANGED argVars

\* copy, lines 211-221: the next sub-directory of cur_dir
MkSubDir ==
    /\ op = "copy" /\ pc = "subdirs" /\ sub_dirs # <<>>
    /\ LET sub_dir == Head(sub_dirs)
           sub_dir_dest == join[cur_dir_dest, new_name(sub_dir)]
       IN  /\ Len(abspath[sub_dir_dest]) <= MaxPathLen
           /\ rendered' = rendered
                  \cup {Call("sub_dir", join[cur_dir, sub_dir], sub_dir)}
           /\ made' = made \cup {<<join[cur_dir, sub_dir], sub_dir_dest>>}
           /\ sub_dirs' = Tail(sub_dirs)
           /\ IF exists(fs, sub_dir_dest)
              THEN /\ pc' = after(Tail(sub_dirs), files)
                   /\ UNCHANGED <<fs, ret>>
              ELSE IF can_makedirs(fs, sub_dir_dest)
              THEN /\ fs' = makedirs(fs, sub_dir_dest)
                   /\ pc' = after(Tail(sub_dirs), files)
                   /\ UNCHANGED ret
              ELSE /\ pc' = "raised"
                   /\ ret' = Raise("OSError", "makedirs", sub_dir_dest)
                   /\ UNCHANGED fs
    /\ last' = NoFile
    /\ UNCHANGED <<op, fs0, src, dest, walk, cur_dir, files, cur_dir_dest,
                   written>>
    /\ UNCHANGED loadVars /\ UNCHANGED argVars

\* shutil.copy(file, file_dest): where the bytes go, and whether they can
copy_target(f, file, file_dest) ==
    IF isdir(f, file_dest) THEN abspath[join[file_dest, basename[file]]]
    ELSE file_dest

can_copy(f, file, file_dest) ==
    LET target == copy_target(f, file, file_dest)
    IN  target # file /\ can_read(f, file) /\ can_write(f, target)

\* copy, lines 223-268: the next file of cur_dir
CopyFile ==
    /\ op = "copy" /\ pc = "files" /\ files # <<>>
    /\ LET name == Head(files)
           new_file == new_name(name)
           file == abspath[join[cur_dir, name]]
           file_dest == abspath[join[cur_dir_dest, new_file]]
           named == rendered \cup {Call("file", file, name)}
           content == node(fs, file).content
           file_content == render(content, data)
       IN  /\ Len(file_dest) <= MaxPathLen
           /\ files' = Tail(files)
           /\ IF overwrite_refused(fs, file_dest)
              THEN /\ pc' = "raised"
                   /\ ret' = Raise("AssertionError",
                                   "Destination file already exists",
                                   file_dest)
                   /\ last' = Done(file, file_dest, <<>>, "assert")
                   /\ rendered' = named
                   /\ UNCHANGED <<fs, written>>
              ELSE IF ignore_it(file)
              THEN /\ pc' = after(sub_dirs, Tail(files))
                   /\ last' = Done(file, file_dest, <<>>, "ignored")
                   /\ rendered' = named
                   /\ UNCHANGED <<fs, ret, written>>
              ELSE IF exclude_it(file)
              THEN IF can_copy(fs, file, file_dest)
                   THEN /\ fs' = write(fs, copy_target(fs, file, file_dest),
                                       content)
                        /\ pc' = after(sub_dirs, Tail(files))
                        /\ last' = Done(file, file_dest,
                                        copy_target(fs, file, file_dest),
                                        "copied")
                        /\ rendered' = named
                        /\ written' = written \cup
                               {<<file, copy_target(fs, file, file_dest)>>}
                        /\ UNCHANGED ret
                   ELSE /\ pc' = "raised"
                        /\ ret' = Raise("IOError", "shutil.copy", file_dest)
                        /\ last' = Done(file, file_dest, <<>>, "ioerror")
                        /\ rendered' = named
                        /\ UNCHANGED <<fs, written>>
              ELSE IF ~can_read(fs, file)
              THEN /\ pc' = "raised"
                   /\ ret' = Raise("IOError", "open", file)
                   /\ last' = Done(file, file_dest, <<>>, "ioerror")
                   /\ rendered' = named
                   /\ UNCHANGED <<fs, written>>
              ELSE IF can_write(fs, file_dest)
              THEN /\ fs' = write(fs, file_dest, file_content)
                   /\ pc' = after(sub_dirs, Tail(files))
                   /\ last' = Done(file, file_dest, file_dest, "rendered")
                   /\ rendered' = named \cup {Call("content", file, content)}
                   /\ written' = written \cup {<<file, file_dest>>}
                   /\ UNCHANGED ret
              ELSE /\ pc' = "raised"
                   /\ ret' = Raise("IOError", "open", file_dest)
                   /\ last' = Done(file, file_dest, <<>>, "ioerror")
                   /\ rendered' = named \cup {Call("content", file, content)}
                   /\ UNCHANGED <<fs, written>>
    /\ UNCHANGED <<op, fs0, src, dest, walk, cur_dir, sub_dirs, cur_dir_dest,
                   made>>
    /\ UNCHANGED loadVars /\ UNCHANGED argVars

\* copy, line 270: the walk is over
CopyReturn ==
    /\ op = "copy" /\ pc = "walk" /\ walk = <<>>
    /\ pc' = "done"
    /\ ret' = Return(<<>>, "True", <<>>)
    /\ last' = NoFile
    /\ UNCHANGED <<op, fs, fs0, src, dest, walk, cur_dir, sub_dirs, files,
                   cur_dir_dest, rendered, made, written>>
    /\ UNCHANGED loadVars /\ UNCHANGED argVars

\* load, lines 321-360; an __import__ that succeeds enters sys.modules
Load ==
    /\ op = "load" /\ pc = "start"
    /\ LET template_module == app_meta.template_module
           can_import == template_module \in sys_modules \cup importable
           result == load(fs, template_path, can_import)
       IN  /\ ret' = result
           /\ pc' = IF result.kind = "raise" THEN "raised" ELSE "done"
           /\ sys_modules' =
                  IF /\ template_path # <<>>
                     /\ load_template_from_file(
                            fs, app_meta.template_dirs, 1,
                            template_path).out = "none"
                     /\ template_module \in importable
                  THEN sys_modules \cup {template_module}
                  ELSE sys_modules
    /\ UNCHANGED <<op, fs, fs0, app_meta, importable, template_path, src,
                   dest, walk, cur_dir, sub_dirs, files, cur_dir_dest,
                   rendered, made, written, last>>
    /\ UNCHANGED argVars

----------------------------------------------------------------------------
(* The calls the model makes                                               *)

\* Template files on disk: under the directories /t and /u, and in the
\* package directory /m of the template module m.
LoadFiles ==
    { << <<"/", "t", "/", "a">>, <<>> >>,
      << <<"/", "u", "/", "a">>, <<"2">> >>,
      << <<"/", "m", "/", "a">>, <<"3">> >>,
      << <<"/", "u", "/", "b", "/", "a">>, <<"4">> >>,
      << <<"/", "m", "/", "b", "/", "a">>, <<"5">> >> }

\* Lists of template directories, with and without trailing slashes; /n does
\* not exist.  The root directory is not among them: rstrip('/') makes it the
\* empty string, which join and abspath resolve against the working
\* directory.
TemplateDirLists ==
    { <<>>,
      << <<"/", "t">> >>,
      << <<"/", "t", "/">>, <<"/", "u">> >>,
      << <<"/", "u", "/", "/">>, <<"/", "t">> >>,
      << <<"/", "n">>, <<"/", "u", "/">> >> }

\* Template paths: the empty one, a file, the same with a leading slash, a
\* file in a sub-directory, and a path that names a directory.
TemplatePaths ==
    { <<>>, <<"a">>, <<"/", "a">>, <<"b", "/", "a">>, <<"b">> }

TemplateModule == <<"m">>

\* A source tree of two files, one with an extension of Meta.exclude
PlainFiles ==
    [dirs |-> {},
     files |-> { << <<"/", "s", "/", "a">>, <<"%">> >>,
                 << <<"/", "s", "/", "a", ".", "g", "z">>, <<"%">> >> }]

\* Source trees of copy, as [dirs, files]: an empty directory, a directory
\* named by a token, two files, a directory whose name starts like src, and
\* a src that is a file.
SourceTrees ==
    { [dirs |-> {<<"/", "s">>}, files |-> {}],
      [dirs |-> {},
       files |-> { << <<"/", "s", "/", "%", "/", "r">>, <<"h", "%">> >> }],
      PlainFiles,
      [dirs |-> {},
       files |-> { << <<"/", "s", "/", "s", "a", "/", "f">>, <<"x">> >> }],
      [dirs |-> {},
       files |-> { << <<"/", "s">>, <<"x">> >> }] }

\* What the destination /d holds before the copy
DestTrees ==
    { [dirs |-> {}, files |-> {}],
      [dirs |-> {}, files |-> { << <<"/", "d", "/", "a">>, <<"o">> >> }],
      [dirs |-> {<<"/", "d", "/", "a">>}, files |-> {}] }

\* The arguments of copy: a src that exists or not; a dest beside src, inside
\* it, or src itself; patterns of the handler and of the call.
SrcArgs == { <<"/", "s">>, <<"/", "n">> }
DestArgs == { <<"/", "d", "/">>, <<"/", "s", "/", "d">>, <<"/", "s">> }
Contexts == { [t \in {"%"} |-> <<"a">>], [t \in {"%"} |-> <<"s">>] }
MetaIgnores == { <<>>, << <<"^", "(.*)", "\\.", "g", "z", "$">> >> }
Ignores == { <<>>, << <<"/", "s", "/", "a">> >> }
Excludes == { <<>>, << <<"^", "(.*)", "a", "$">> >> }

NoContext == [t \in {} |-> <<>>]
NoMeta == [ignore |-> <<>>, exclude |-> <<>>]
NoAppMeta == [template_dirs |-> <<>>, template_module |-> <<>>]

InitLoad ==
    /\ op = "load"
    /\ \E S \in SUBSET LoadFiles : fs = mktree({<<"/">>}, S)
    /\ \E dirs \in TemplateDirLists :
           app_meta = [template_dirs |-> dirs,
                       template_module |-> TemplateModule]
    /\ importable \in SUBSET {TemplateModule}
    /\ sys_modules \in SUBSET importable
    /\ template_path \in TemplatePaths
    /\ src = <<>> /\ dest = <<>> /\ data = NoContext /\ force = FALSE
    /\ exclude = <<>> /\ ignore = <<>> /\ meta = NoMeta

InitCopy ==
    /\ op = "copy"
    /\ src \in SrcArgs
    /\ dest \in DestArgs
    /\ \E s \in SourceTrees, d \in DestTrees :
           /\ d.dirs \cup d.files # {} =>
                  dest = <<"/", "d", "/">> /\ s = PlainFiles
           /\ fs = mktree({<<"/">>} \cup s.dirs \cup d.dirs,
                          s.files \cup d.files)
    /\ data \in Contexts
    /\ force \in BOOLEAN
    /\ exclude \in Excludes
    /\ ignore \in Ignores
    /\ \E i \in MetaIgnores : meta = [ignore |-> i, exclude |-> MetaExclude]
    /\ app_meta = NoAppMeta /\ importable = {} /\ sys_modules = {}
    /\ template_path = <<>>

\* The state after construction, and the call about to be made
Init ==
    /\ InitLoad \/ InitCopy
    /\ fs0 = fs
    /\ pc = "start"
    /\ ret = NoRet
    /\ walk = <<>> /\ cur_dir = <<>> /\ sub_dirs = <<>> /\ files = <<>>
    /\ cur_dir_dest = <<>>
    /\ rendered = {} /\ made = {} /\ written = {} /\ last = NoFile

Next ==
    \/ Load
    \/ CopyStart
    \/ VisitDir
    \/ MkSubDir
    \/ CopyFile
    \/ CopyReturn

Spec == Init /\ [][Next]_vars

\* A call that can take a step takes it: the interpreter runs the one
\* thread of the call until it returns or raises.
FairSpec == Spec /\ WF_vars(Next)

----------------------------------------------------------------------------
(* Properties of load                                                      *)

\* The non-empty components of a slash-separated path
parts(path) == SelectSeq(split[path], LAMBDA c : c # <<>>)

\* The file that a template directory holds for a logical template path
template_file(template_dir, path) ==
    <<"/">> \o slash_join[parts(template_dir) \o parts(path)]

\* The template directories, by index, under which the path exists
holders ==
    {i \in 1..Len(app_meta.template_dirs) :
        template_file(app_meta.template_dirs[i], template_path)
            \in DOMAIN fs0}

\* The template module can be imported and holds the template as a resource
in_module ==
    /\ app_meta.template_module \in sys_modules \cup importable
    /\ node(fs0, template_file(<<"/">> \o app_meta.template_module,
                               template_path)).kind = "file"

\* The components of a path joined by dots
RECURSIVE dotted(_)
dotted(comps) ==
    IF comps = <<>> THEN <<>>
    ELSE IF Len(comps) = 1 THEN comps[1]
    ELSE comps[1] \o <<".">> \o dotted(Tail(comps))

loaded == op = "load" /\ pc # "start" /\ template_path # <<>>

C6_ModuleFallback ==
    (loaded /\ holders = {} /\ in_module) =>
        ret = Return(
                fs0[template_file(<<"/">> \o app_meta.template_module,
                                  template_path)].content,
                "module",
                app_meta.template_module \o <<".">>
                    \o dotted(parts(template_path)))

\* A load of b/a from the module, which this load imported
C6_Witness ==
    /\ loaded /\ pc = "done" /\ ret.type = "module"
    /\ ret.path = <<"m", ".", "b", ".", "a">>
    /\ app_meta.template_dirs # <<>>
    /\ app_meta.template_module \in sys_modules

\* C7: a non-empty template path that neither a template directory nor the
\* template module holds (a module that cannot be imported holds nothing)
\* makes load raise the error that names the path; nothing is returned.
C7_NotFound ==
    (loaded /\ holders = {} /\ ~in_module) =>
        /\ pc = "raised"
        /\ ret = Raise("FrameworkError", "Could not locate template",
                       template_path)

\* A load that failed because the module could not be imported, although
\* the package directory holds the file
C7_Witness ==
    /\ loaded /\ pc = "raised" /\ holders = {}
    /\ app_meta.template_dirs # <<>>
    /\ app_meta.template_module \notin importable
    /\ <<"/", "m", "/", "a">> \in DOMAIN fs0
    /\ template_path = <<"/", "a">>

----------------------------------------------------------------------------
(* Properties of copy                                                      *)

Range(seq) == {seq[i] : i \in 1..Len(seq)}

\* The file matches a pattern of the handler's or of the call's ignore list
Ignored(file) ==
    \E pattern \in Range(meta.ignore) \cup Range(ignore) :
        re_match[pattern, file]

\* The file matches a pattern of the handler's or of the call's exclude list
Excluded(file) ==
    \E pattern \in Range(meta.exclude) \cup Range(exclude) :
        re_match[pattern, file]

\* Path p is directory d or lies below it
under(p, d) == d \in prefixes[p]

\* The step just taken handled a file entry
handled == op = "copy" /\ last.how # "none"

\* C2 as claimed: a file entry whose destination exists makes the copy fail
\* with the destination-exists error, the destination untouched, when force
\* is false, and has the destination's content replaced when force is true.
C2_Original ==
    (handled /\ last.before.kind # "none") =>
        IF ~force
        THEN /\ pc = "raised"
             /\ ret = Raise("AssertionError",
                            "Destination file already exists", last.dest)
             /\ node(fs, last.dest) = last.before
        ELSE /\ pc # "raised"
             /\ node(fs, last.dest) =
                    File(IF Excluded(last.file) THEN last.source
                         ELSE render(last.source, data))

\* C2 as amended: when force is false the copy fails with the
\* destination-exists error naming the path and the destination is
\* untouched.  When force is true the entry is handled like any other: an
\* ignored file leaves the destination untouched and the copy goes on;
\* otherwise a destination that is a regular file has its content replaced,
\* by the source's bytes when the file is excluded and by the rendered content
\* when it is not.  What is at the destination path stays as it was when it
\* is a directory, and when the file is excluded and is its own destination.
C2_Overwrite ==
    (handled /\ last.before.kind # "none") =>
        IF ~force
        THEN /\ pc = "raised"
             /\ ret = Raise("AssertionError",
                            "Destination file already exists", last.dest)
             /\ node(fs, last.dest) = last.before
        ELSE IF Ignored(last.file)
        THEN pc # "raised" /\ node(fs, last.dest) = last.before
        ELSE IF /\ last.before.kind = "file"
                /\ ~(Excluded(last.file) /\ last.dest = last.file)
        THEN /\ pc # "raised"
             /\ node(fs, last.dest) =
                    File(IF Excluded(last.file) THEN last.source
                         ELSE render(last.source, data))
        ELSE node(fs, last.dest) = last.before

\* An existing destination file that a forced copy replaced by rendered text
C2_Witness ==
    /\ handled /\ force /\ last.how = "rendered"
    /\ last.before = File(<<"o">>)
    /\ node(fs, last.dest) # last.before

\* C3: a source file that matches the combined ignore list is skipped, also
\* when it matches the exclude list: no file is written from it, its content
\* is never rendered, and every file the copy added to the tree or changed
\* in it was written from a source file that is not ignored.
C3_IgnoredNeverCopied ==
    op = "copy" =>
        /\ \A w \in written : ~Ignored(w[1])
        /\ \A c \in rendered : c.what = "content" => ~Ignored(c.of)
        /\ \A p \in DOMAIN fs :
               (fs[p].kind = "file" /\ node(fs0, p) # fs[p]) =>
                   \E w \in written : w[2] = p /\ ~Ignored(w[1])
        /\ (handled /\ last.how # "assert" /\ Ignored(last.file)) =>
               last.how = "ignored" /\ node(fs, last.dest) = last.before

\* A finished copy that wrote a file and skipped another that is both
\* ignored and excluded
C3_Witness ==
    /\ op = "copy" /\ pc = "done" /\ dest = <<"/", "d">>
    /\ <<"/", "s", "/", "a", ".", "g", "z">> \in DOMAIN fs0
    /\ Ignored(<<"/", "s", "/", "a", ".", "g", "z">>)
    /\ Excluded(<<"/", "s", "/", "a", ".", "g", "z">>)
    /\ <<"/", "d", "/", "a", ".", "g", "z">> \notin DOMAIN fs
    /\ written # {}

\* C4: when the copy handles a source file that matches the combined exclude
\* list and not the ignore list, and the byte copy does not fail, the file
\* is in the destination tree with the source's content, its name was
\* rendered and its content was not.
C4_ExcludedCopiedVerbatim ==
    (/\ handled /\ last.how \notin {"assert", "ioerror"}
     /\ ~Ignored(last.file) /\ Excluded(last.file)) =>
        /\ last.how = "copied"
        /\ under(last.written, dest)
        /\ node(fs, last.written) = File(last.source)
        /\ \E c \in rendered : c.what = "file" /\ c.of = last.file
        /\ \A c \in rendered : ~(c.what = "content" /\ c.of = last.file)

\* A file of a default extension, holding a token, copied as it is
C4_Witness ==
    /\ handled /\ last.how = "copied" /\ exclude = <<>>
    /\ last.file = <<"/", "s", "/", "a", ".", "g", "z">>
    /\ node(fs, <<"/", "d", "/", "a", ".", "g", "z">>) = File(<<"%">>)

\* The components of p below the source directory
below_src(p) == SubSeq(parts(p), Len(parts(src)) + 1, Len(parts(p)))

\* The destination path that mirrors source path p: dest, then the rendered
\* names of the components of p below src
mirror(p) ==
    <<"/">> \o slash_join[
        parts(dest)
        \o [i \in 1..Len(below_src(p)) |-> render(below_src(p)[i], data)]]

\* C5 as claimed: a finished copy leaves under dest a tree that mirrors the
\* source tree with every name rendered; every file that is neither ignored
\* nor excluded holds its rendered content; every call of the render
\* function was given the context of the copy.
C5_Mirror ==
    (op = "copy" /\ pc = "done") =>
        /\ \A p \in DOMAIN fs0 :
               (under(p, src) /\ p # src) =>
                   IF fs0[p].kind = "dir" THEN isdir(fs, mirror(p))
                   ELSE IF Ignored(p) THEN TRUE
                   ELSE IF Excluded(p) THEN exists(fs, mirror(p))
                   ELSE node(fs, mirror(p))
                            = File(render(fs0[p].content, data))
        /\ \A c \in rendered : c.data = data

\* C8 as claimed: a src that is no directory makes copy fail with the
\* source-not-found error, and the file system is as it was.
C8_SourceMustBeDirectory ==
    (op = "copy" /\ pc # "start" /\ ~isdir(fs0, src)) =>
        /\ pc = "raised"
        /\ ret.exc = "AssertionError"
        /\ fs = fs0

strip_prefix(prefix, s) ==
    IF Len(s) >= Len(prefix) /\ SubSeq(s, 1, Len(prefix)) = prefix
    THEN SubSeq(s, Len(prefix) + 1, Len(s))
    ELSE s

\* C10 as claimed: the destination of a visited directory other than src is
\* dest joined with the directory's rendered path less the leading source
\* prefix; it is the directory made for it when its parent was visited, and
\* it exists.
C10_DirectoryDestination ==
    (op = "copy" /\ cur_dir # <<>> /\ cur_dir # src) =>
        /\ abspath[cur_dir_dest] =
               abspath[join[dest,
                            lstrip[strip_prefix(src, render(cur_dir, data)),
                                   "/"]]]
        /\ \E m \in made :
               m[1] = cur_dir /\ abspath[m[2]] = abspath[cur_dir_dest]
        /\ isdir(fs, cur_dir_dest)

====
